---------------------------- MODULE Spec2Model ----------------------------
(***************************************************************************)
(* Model of crates/rmcp-display/src/lib.rs: the DisplayServer tools        *)
(* get_display_info, get_display_at_point and get_display_by_name, the     *)
(* decoding of their parameters, and the text renderers                    *)
(* format_single_display and format_display_info.                          *)
(*                                                                         *)
(* Text is a sequence of string fragments, one per literal piece or        *)
(* formatted argument of a format string; pushing the empty string adds    *)
(* no fragment.  f32 fields of DisplayInfo (frequency, scale_factor,       *)
(* rotation) are held in thousandths.  i32 fields keep their 32-bit width. *)
(***************************************************************************)
EXTENDS Integers, Sequences, FiniteSets, TLC

\* ------------------------------------------------------------- bounds --
NumCalls == 2
MaxDisplays == 2

\* ------------------------------------------------------ i32 arithmetic --
MaxI32 == 2147483647
MinI32 == -MaxI32 - 1

Abs(n) == IF n < 0 THEN -n ELSE n

\* a * b leaves the i32 range (a, b > 0 at the only call site).
MulOverflows(a, b) == a > 0 /\ b > 0 /\ a > MaxI32 \div b

\* a + b leaves the i32 range.
AddOverflows(a, b) ==
    \/ a > 0 /\ b > 0 /\ b > MaxI32 - a
    \/ a < 0 /\ b < 0 /\ b < MinI32 - a

\* Low 32 bits of a * b as a signed value, for 0 <= a, b <= MaxI32,
\* computed on 16- and 8-bit limbs so that no intermediate exceeds 31 bits.
WrappingMul(a, b) ==
    LET ah == a \div 65536
        al == a % 65536
        bh == b \div 65536
        bl == b % 65536
        a1 == al \div 256
        a0 == al % 256
        t  == a1 * bl
        v  == (t % 256) * 256 + a0 * bl
        lo == v % 65536
        hi == (t \div 256) + (v \div 65536)
        H  == (hi + ((ah * bl) % 65536) + ((al * bh) % 65536)) % 65536
    IN  IF H >= 32768 THEN (H - 65536) * 65536 + lo ELSE H * 65536 + lo

\* Two's-complement a + b.
WrappingAdd(a, b) ==
    IF a > 0 /\ b > 0 /\ b > MaxI32 - a
      THEN (a - MaxI32 - 1) + (b - MaxI32 - 1)
      ELSE IF a < 0 /\ b < 0 /\ b < MinI32 - a
             THEN (a + MaxI32 + 1) + (b + MaxI32 + 1)
             ELSE a + b

\* d.width_mm.pow(2) + d.height_mm.pow(2) on i32.  With overflow checks
\* (debug profile) an overflowing pow or + panics; without them (release
\* profile) it wraps.
SumOfSquares(w, h, checks) ==
    IF checks /\ (\/ MulOverflows(w, w)
                  \/ MulOverflows(h, h)
                  \/ AddOverflows(WrappingMul(w, w), WrappingMul(h, h)))
      THEN [panic |-> TRUE, value |-> 0]
      ELSE [panic |-> FALSE,
            value |-> WrappingAdd(WrappingMul(w, w), WrappingMul(h, h))]

\* ---------------------------------------------------- float formatting --
RECURSIVE IsqrtIn(_, _, _)
IsqrtIn(lo, hi, s) ==
    IF lo >= hi THEN lo
    ELSE LET mid == (lo + hi + 1) \div 2
         IN  IF mid <= s \div mid THEN IsqrtIn(mid, hi, s)
                                  ELSE IsqrtIn(lo, mid - 1, s)

\* floor(sqrt(s)) for 0 <= s <= MaxI32.
Isqrt(s) == IF s <= 0 THEN 0 ELSE IsqrtIn(1, 46340, s)

\* A <= 100 * sqrt(s), for A >= 0 and 0 <= s <= MaxI32, without overflow:
\* with A = 100 q + r this is 200 q r + r^2 <= 10000 (s - q^2).
LeHundredSqrt(A, s) ==
    LET q == A \div 100
        r == A % 100
    IN  IF q > 46340 THEN FALSE
        ELSE LET d == s - q * q
             IN  IF d < 0 THEN FALSE
                 ELSE IF d > 100000 THEN TRUE
                 ELSE 200 * q * r + r * r <= 10000 * d

\* Tenths of an inch shown by {:.1} for sqrt(s) / 25.4, s >= 0: the t with
\* (t - 1/2) * 2.54 <= sqrt(s) < (t + 1/2) * 2.54.
DiagTenths(s) ==
    LET t0 == (Isqrt(s) * 100) \div 254
    IN  CHOOSE t \in t0 .. (t0 + 2) :
            /\ (t = 0 \/ LeHundredSqrt((2 * t - 1) * 127, s))
            /\ ~ LeHundredSqrt((2 * t + 1) * 127, s)

\* format!("{:.1}", sqrt(s as f32) / 25.4): NaN for a negative radicand.
FormatDiag(s) ==
    IF s < 0 THEN <<"NaN">>
    ELSE LET t == DiagTenths(s)
         IN  <<ToString(t \div 10), ".", ToString(t % 10)>>

\* Nearest integer to v / unit (v in units of 1/unit), ties to even.
RoundNearest(v, unit) ==
    LET a == Abs(v)
        q == a \div unit
        r == a % unit
        n == IF 2 * r > unit \/ (2 * r = unit /\ q % 2 = 1) THEN q + 1 ELSE q
    IN  IF v < 0 THEN -n ELSE n

\* `as i32` of a float held in thousandths: truncation toward zero.
TruncToI32(v) == IF v < 0 THEN -((-v) \div 1000) ELSE v \div 1000

\* The sign of a float rounded to -0 is kept by {:.0}.
FormatRounded(v, unit) ==
    LET n == RoundNearest(v, unit)
    IN  IF v < 0 /\ n = 0 THEN "-0" ELSE ToString(n)

\* push_str of s: the empty string adds nothing.
Frag(s) == IF s = "" THEN <<>> ELSE <<s>>

\* ------------------------------------------------------------ renderer --
\* Mutant: the internal name wins over the friendly name.
HeaderNameFirst(d) ==
    Frag(IF d.name = "" THEN d.friendly_name ELSE d.name)
      \o Frag(IF d.is_primary THEN " (primary)" ELSE "") \o <<"\n">>

Header(d) ==
    Frag(IF d.friendly_name = "" THEN d.name ELSE d.friendly_name)
      \o Frag(IF d.is_primary THEN " (primary)" ELSE "") \o <<"\n">>

ResolutionLine(d) ==
    <<"  Resolution: ", ToString(d.width), "x", ToString(d.height), "\n">>

PositionLine(d) ==
    <<"  Position: (", ToString(d.x), ", ", ToString(d.y), ")\n">>

PhysicalLine(d, sumsq) ==
    <<"  Physical: ", ToString(d.width_mm), "mm x ", ToString(d.height_mm),
      "mm (~">> \o FormatDiag(sumsq) \o <<"\")\n">>

\* Mutant: a refresh rate of 0 ("unavailable") is printed.
RefreshLineNonNegative(d) ==
    IF d.frequency >= 0
      THEN <<"  Refresh: ", FormatRounded(d.frequency, 1000), "Hz\n">>
      ELSE <<>>

RefreshLine(d) ==
    IF d.frequency > 0
      THEN <<"  Refresh: ", FormatRounded(d.frequency, 1000), "Hz\n">>
      ELSE <<>>

ScaleLine(d) ==
    IF d.scale_factor # 1000
      THEN <<"  Scale: ", FormatRounded(d.scale_factor, 10), "%\n">>
      ELSE <<>>

RotationLine(d) ==
    IF d.rotation # 0
      THEN <<"  Rotation: ", ToString(TruncToI32(d.rotation)), "°\n">>
      ELSE <<>>

Panic == [kind |-> "panic", text |-> <<>>]
Text(t) == [kind |-> "text", text |-> t]

format_single_display(d, checks) ==
    LET head == Header(d) \o ResolutionLine(d) \o PositionLine(d)
        tail == RefreshLine(d) \o ScaleLine(d) \o RotationLine(d)
    IN  IF d.width_mm > 0 /\ d.height_mm > 0
          THEN LET s == SumOfSquares(d.width_mm, d.height_mm, checks)
               IN  IF s.panic THEN Panic
                   ELSE Text(head \o PhysicalLine(d, s.value) \o tail)
          ELSE Text(head \o tail)

RECURSIVE DisplayBlocks(_, _, _)
DisplayBlocks(displays, i, checks) ==
    IF i > Len(displays) THEN Text(<<>>)
    ELSE LET one  == format_single_display(displays[i], checks)
             rest == DisplayBlocks(displays, i + 1, checks)
         IN  IF one.kind = "panic" \/ rest.kind = "panic" THEN Panic
             ELSE Text(<<"Display ", ToString(i), ": ">> \o one.text
                         \o <<"\n">> \o rest.text)

\* Mutant: the total is the last 0-based index.
format_display_info_last_index(displays, checks) ==
    IF displays = <<>>
      THEN Text(<<"Display Information:\n\n", "No displays detected.\n">>)
      ELSE LET blocks == DisplayBlocks(displays, 1, checks)
           IN  IF blocks.kind = "panic" THEN Panic
               ELSE Text(<<"Display Information:\n\n">> \o blocks.text
                           \o <<"Total displays: ",
                                ToString(Len(displays) - 1), "\n">>)

\* Mutant: no early return for the empty slice.
format_display_info_no_empty_case(displays, checks) ==
    LET blocks == DisplayBlocks(displays, 1, checks)
    IN  IF blocks.kind = "panic" THEN Panic
        ELSE Text(<<"Display Information:\n\n">> \o blocks.text
                    \o <<"Total displays: ", ToString(Len(displays)), "\n">>)

format_display_info(displays, checks) ==
    IF displays = <<>>
      THEN Text(<<"Display Information:\n\n", "No displays detected.\n">>)
      ELSE LET blocks == DisplayBlocks(displays, 1, checks)
           IN  IF blocks.kind = "panic" THEN Panic
               ELSE Text(<<"Display Information:\n\n">> \o blocks.text
                           \o <<"Total displays: ", ToString(Len(displays)),
                                "\n">>)

\* ------------------------------------------------------ protocol data --
Calls == 1 .. NumCalls

Ops == {"get_display_info", "get_display_at_point", "get_display_by_name"}

\* One JSON argument: absent, an integer in the i32 range, an integer
\* outside it, or a string.
Absent == [t |-> "absent", i |-> 0, s |-> ""]
JInt(n) == [t |-> "int", i |-> n, s |-> ""]
JBig == [t |-> "bigint", i |-> 0, s |-> ""]
JStr(str) == [t |-> "str", i |-> 0, s |-> str]

NoArgs == [x |-> Absent, y |-> Absent, name |-> Absent]

PointArgs ==
    { [NoArgs EXCEPT !.x = ax, !.y = ay] :
        ax \in {Absent, JInt(-5), JInt(3)},
        ay \in {JStr("7"), JBig, JInt(7)} }

NameArgs ==
    { [NoArgs EXCEPT !.name = an] :
        an \in {Absent, JInt(3), JStr("DP-1"), JStr("")} }

ArgsOf(o) ==
    CASE o = "get_display_info" -> {NoArgs}
      [] o = "get_display_at_point" -> PointArgs
      [] o = "get_display_by_name" -> NameArgs

NoParams == [x |-> 0, y |-> 0, name |-> ""]

\* Results handed back to the protocol layer.
NoResult == [kind |-> "none", code |-> "", text |-> <<>>]
Success(t) == [kind |-> "success", code |-> "", text |-> t]
InternalError(msg) == [kind |-> "error", code |-> "internal_error", text |-> msg]
InvalidParams(msg) == [kind |-> "error", code |-> "invalid_params", text |-> msg]
Panicked == [kind |-> "panic", code |-> "", text |-> <<>>]

\* ------------------------------------------------- parameter decoding --
\* serde-derived Deserialize of PointParams { x: i32, y: i32 }: a present
\* field of the wrong type fails when it is visited, a missing field when
\* the map ends.
\* Mutant: fields carry #[serde(default)], a missing one decodes to 0.
DecodePointDefaulting(r) ==
    IF r.x.t \in {"str", "bigint"}
      THEN [ok |-> FALSE, params |-> NoParams, err |-> <<"invalid type for field '", "x", "'">>]
    ELSE IF r.y.t \in {"str", "bigint"}
      THEN [ok |-> FALSE, params |-> NoParams, err |-> <<"invalid type for field '", "y", "'">>]
    ELSE [ok |-> TRUE, params |-> [NoParams EXCEPT !.x = r.x.i, !.y = r.y.i],
          err |-> <<>>]

DecodePoint(r) ==
    IF r.x.t \in {"str", "bigint"}
      THEN [ok |-> FALSE, params |-> NoParams, err |-> <<"invalid type for field '", "x", "'">>]
    ELSE IF r.y.t \in {"str", "bigint"}
      THEN [ok |-> FALSE, params |-> NoParams, err |-> <<"invalid type for field '", "y", "'">>]
    ELSE IF r.x.t = "absent"
      THEN [ok |-> FALSE, params |-> NoParams, err |-> <<"missing field '", "x", "'">>]
    ELSE IF r.y.t = "absent"
      THEN [ok |-> FALSE, params |-> NoParams, err |-> <<"missing field '", "y", "'">>]
    ELSE [ok |-> TRUE, params |-> [NoParams EXCEPT !.x = r.x.i, !.y = r.y.i],
          err |-> <<>>]

\* serde-derived Deserialize of NameParams { name: String }.
DecodeName(r) ==
    IF r.name.t \in {"int", "bigint"}
      THEN [ok |-> FALSE, params |-> NoParams, err |-> <<"invalid type for field '", "name", "'">>]
    ELSE IF r.name.t = "absent"
      THEN [ok |-> FALSE, params |-> NoParams, err |-> <<"missing field '", "name", "'">>]
    ELSE [ok |-> TRUE, params |-> [NoParams EXCEPT !.name = r.name.s],
          err |-> <<>>]

\* ------------------------------------------------ enumeration facility --
BaseDisplay ==
    [name |-> "DP-1", friendly_name |-> "", is_primary |-> FALSE,
     x |-> 0, y |-> 0, width |-> 1920, height |-> 1080,
     width_mm |-> 0, height_mm |-> 0,
     frequency |-> 0, scale_factor |-> 1000, rotation |-> 0]

MainDisplay ==
    [BaseDisplay EXCEPT !.name = "eDP-1", !.friendly_name = "Main",
                        !.is_primary = TRUE, !.width_mm = 600,
                        !.height_mm = 340, !.frequency = 59940]

SideDisplay ==
    [BaseDisplay EXCEPT !.x = -1920, !.scale_factor = 1250,
                        !.rotation = 90000]

\* A video wall 46.341 m wide: width_mm^2 exceeds the i32 range.
WallDisplay ==
    [BaseDisplay EXCEPT !.x = 1920, !.width_mm = 46341, !.height_mm = 2000]

\* Records the facility returns to the tool handlers.
FacilityDisplays == {MainDisplay, WallDisplay}

\* Records of the slices given to format_display_info on its own.
ListDisplays == {MainDisplay, SideDisplay, WallDisplay}

FacilityErrors == {"", "display not found"}

RECURSIVE SeqsUpTo(_, _)
SeqsUpTo(S, n) ==
    IF n = 0 THEN {<<>>}
    ELSE LET shorter == SeqsUpTo(S, n - 1)
         IN  shorter \cup { Append(q, e) : q \in shorter, e \in S }

NoOutcome == [kind |-> "none", displays |-> <<>>, err |-> ""]
Ok(ds) == [kind |-> "ok", displays |-> ds, err |-> ""]
Err(e) == [kind |-> "err", displays |-> <<>>, err |-> e]

\* DisplayInfo::all() -> Result<Vec<DisplayInfo>>
AllOutcomes ==
    { Ok(ds) : ds \in SeqsUpTo(FacilityDisplays, MaxDisplays) }
      \cup { Err(e) : e \in FacilityErrors }

\* DisplayInfo::from_point / from_name -> Result<DisplayInfo>
OneOutcomes ==
    { Ok(<<d>>) : d \in FacilityDisplays } \cup { Err(e) : e \in FacilityErrors }

\* ------------------------------------------------------ tool handlers --
InfoErrorPrefix == <<"Failed to get display info: ">>

PointErrorPrefix(p) ==
    <<"Failed to get display at (", ToString(p.x), ", ", ToString(p.y), "): ">>

NameErrorPrefix(p) ==
    <<"Failed to get display '">> \o Frag(p.name) \o <<"': ">>

PointHeading(p) ==
    <<"Display at (", ToString(p.x), ", ", ToString(p.y), "):\n">>

Wrap(rendered, heading) ==
    IF rendered.kind = "panic" THEN Panicked
    ELSE Success(heading \o rendered.text)

\* Body of get_display_info for a facility outcome.
InfoResult(out, checks) ==
    IF out.kind = "err"
      THEN InternalError(InfoErrorPrefix \o Frag(out.err))
      ELSE Wrap(format_display_info(out.displays, checks), <<>>)

\* Mutant: the facility's message is left out of the error.
PointResultDropsMessage(p, out, checks) ==
    IF out.kind = "err"
      THEN InternalError(PointErrorPrefix(p))
      ELSE Wrap(format_single_display(out.displays[1], checks), PointHeading(p))

\* Mutant: the heading shows the resolved display's origin.
PointResultRecordPosition(p, out, checks) ==
    IF out.kind = "err"
      THEN InternalError(PointErrorPrefix(p) \o Frag(out.err))
      ELSE Wrap(format_single_display(out.displays[1], checks),
                PointHeading([p EXCEPT !.x = out.displays[1].x,
                                       !.y = out.displays[1].y]))

\* Body of get_display_at_point.
PointResult(p, out, checks) ==
    IF out.kind = "err"
      THEN InternalError(PointErrorPrefix(p) \o Frag(out.err))
      ELSE Wrap(format_single_display(out.displays[1], checks), PointHeading(p))

\* Body of get_display_by_name.
NameResult(p, out, checks) ==
    IF out.kind = "err"
      THEN InternalError(NameErrorPrefix(p) \o Frag(out.err))
      ELSE Wrap(format_single_display(out.displays[1], checks), <<>>)

\* --------------------------------------------------------------- state --
VARIABLES
    overflow_checks,  \* build profile: i32 overflow panics (TRUE) or wraps
    pc,               \* per call: "idle", "received", "ready", "done", "panicked"
    op,               \* per call: the tool named by the request
    raw,              \* per call: the untyped arguments
    params,           \* per call: the decoded PointParams / NameParams
    fcalls,           \* per call: number of DisplayInfo::* invocations made
    fout,             \* per call: what the facility returned
    result,           \* per call: the Result handed to the protocol layer
    nresults,         \* per call: number of results handed back
    rd,               \* renderer harness: one DisplayInfo
    rds,              \* renderer harness: a slice of DisplayInfo
    single,           \* renderer harness: format_single_display(rd)
    info              \* renderer harness: format_display_info(rds)

callVars == <<pc, op, raw, params, fcalls, fout, result, nresults>>
renderVars == <<rd, rds, single, info>>
vars == <<overflow_checks, pc, op, raw, params, fcalls, fout, result,
          nresults, rd, rds, single, info>>

NotRendered == [kind |-> "none", text |-> <<>>]

CallsInit ==
    /\ pc = [c \in Calls |-> "idle"]
    /\ op = [c \in Calls |-> "none"]
    /\ raw = [c \in Calls |-> NoArgs]
    /\ params = [c \in Calls |-> NoParams]
    /\ fcalls = [c \in Calls |-> 0]
    /\ fout = [c \in Calls |-> NoOutcome]
    /\ result = [c \in Calls |-> NoResult]
    /\ nresults = [c \in Calls |-> 0]

RenderIdle ==
    /\ rd = BaseDisplay
    /\ rds = <<>>
    /\ single = NotRendered
    /\ info = NotRendered

Init ==
    /\ overflow_checks \in BOOLEAN
    /\ CallsInit
    /\ RenderIdle

\* The transport hands a tools/call request to the router.  A tool without
\* parameters goes straight to its handler.
Receive(c, o, r) ==
    /\ pc[c] = "idle"
    /\ op' = [op EXCEPT ![c] = o]
    /\ raw' = [raw EXCEPT ![c] = r]
    /\ pc' = [pc EXCEPT ![c] = IF o = "get_display_info" THEN "ready"
                                                         ELSE "received"]
    /\ UNCHANGED <<overflow_checks, params, fcalls, fout, result, nresults,
                   renderVars>>

\* Parameters<PointParams> / Parameters<NameParams>: the arguments are
\* deserialized before the handler body runs; a failure is the call's result.
Decode(c) ==
    /\ pc[c] = "received"
    /\ LET dec == IF op[c] = "get_display_at_point" THEN DecodePoint(raw[c])
                                                    ELSE DecodeName(raw[c])
       IN  IF dec.ok
             THEN /\ params' = [params EXCEPT ![c] = dec.params]
                  /\ pc' = [pc EXCEPT ![c] = "ready"]
                  /\ UNCHANGED <<result, nresults>>
             ELSE /\ result' = [result EXCEPT ![c] = InvalidParams(dec.err)]
                  /\ nresults' = [nresults EXCEPT ![c] = @ + 1]
                  /\ pc' = [pc EXCEPT ![c] = "done"]
                  /\ UNCHANGED params
    /\ UNCHANGED <<overflow_checks, op, raw, fcalls, fout, renderVars>>

\* Mutant: the last facility outcome is kept in a field shared by all calls.
FinishShared(c, out, res) ==
    /\ fcalls' = [fcalls EXCEPT ![c] = @ + 1]
    /\ fout' = [d \in Calls |-> out]
    /\ result' = [result EXCEPT ![c] = res]
    /\ nresults' = [nresults EXCEPT ![c] = IF res.kind = "panic" THEN @ ELSE @ + 1]
    /\ pc' = [pc EXCEPT ![c] = IF res.kind = "panic" THEN "panicked" ELSE "done"]
    /\ UNCHANGED <<overflow_checks, op, raw, params, renderVars>>

\* The handler body has no await point: facility call, rendering and the
\* returned Result are one step.  A panic unwinds out of the handler and
\* no Result is returned.
Finish(c, out, res) ==
    /\ fcalls' = [fcalls EXCEPT ![c] = @ + 1]
    /\ fout' = [fout EXCEPT ![c] = out]
    /\ result' = [result EXCEPT ![c] = res]
    /\ nresults' = [nresults EXCEPT ![c] = IF res.kind = "panic" THEN @ ELSE @ + 1]
    /\ pc' = [pc EXCEPT ![c] = IF res.kind = "panic" THEN "panicked" ELSE "done"]
    /\ UNCHANGED <<overflow_checks, op, raw, params, renderVars>>

get_display_info(c) ==
    /\ pc[c] = "ready"
    /\ op[c] = "get_display_info"
    /\ \E out \in AllOutcomes :
           Finish(c, out, InfoResult(out, overflow_checks))

get_display_at_point(c) ==
    /\ pc[c] = "ready"
    /\ op[c] = "get_display_at_point"
    /\ \E out \in OneOutcomes :
           Finish(c, out, PointResult(params[c], out, overflow_checks))

get_display_by_name(c) ==
    /\ pc[c] = "ready"
    /\ op[c] = "get_display_by_name"
    /\ \E out \in OneOutcomes :
           Finish(c, out, NameResult(params[c], out, overflow_checks))

Next ==
    \E c \in Calls :
        \/ \E o \in Ops : \E r \in ArgsOf(o) : Receive(c, o, r)
        \/ Decode(c)
        \/ get_display_info(c)
        \/ get_display_at_point(c)
        \/ get_display_by_name(c)

Spec == Init /\ [][Next]_vars

\* ---------------------------------------------------- renderer harness --
Names == {"", "DP-1"}
FriendlyNames == {"", "Main"}
WidthsMm == {-1, 0, 600, 46341}
HeightsMm == {0, 340}
Frequencies == {0, 59940}
ScaleFactors == {1000, 1250}
Rotations == {-500, 0, 90000}

Displays ==
    [name : Names, friendly_name : FriendlyNames, is_primary : BOOLEAN,
     x : {-1920, 0}, y : {0}, width : {1920}, height : {1080},
     width_mm : WidthsMm, height_mm : HeightsMm,
     frequency : Frequencies, scale_factor : ScaleFactors,
     rotation : Rotations]

RenderInit ==
    /\ overflow_checks \in BOOLEAN
    /\ CallsInit
    /\ single = NotRendered
    /\ info = NotRendered
    /\ \/ rd \in Displays /\ rds = <<>>
       \/ rd = BaseDisplay /\ rds \in SeqsUpTo(ListDisplays, MaxDisplays)

RenderSingle ==
    /\ single.kind = "none"
    /\ single' = format_single_display(rd, overflow_checks)
    /\ UNCHANGED <<overflow_checks, callVars, rd, rds, info>>

RenderList ==
    /\ info.kind = "none"
    /\ info' = format_display_info(rds, overflow_checks)
    /\ UNCHANGED <<overflow_checks, callVars, rd, rds, single>>

RenderNext == RenderSingle \/ RenderList

SpecRender == RenderInit /\ [][RenderNext]_vars

\* ============================================================= claims ==
IsPrefix(p, t) == Len(p) <= Len(t) /\ SubSeq(t, 1, Len(p)) = p

HasFragment(t, f) == \E i \in DOMAIN t : t[i] = f

\* ------------------------------------------------------------------ C1 --
C1Prefix(c) ==
    CASE op[c] = "get_display_info" -> <<"Failed to get display info: ">>
      [] op[c] = "get_display_at_point" ->
            <<"Failed to get display at (", ToString(params[c].x), ", ",
              ToString(params[c].y), "): ">>
      [] op[c] = "get_display_by_name" ->
            <<"Failed to get display '">> \o Frag(params[c].name) \o <<"': ">>

\* C1: for each of the three operations, when the facility call fails with
\* message e the operation returns an error result, never a success, whose
\* message is the operation's fixed context prefix followed by e unmodified.
C1_FacilityErrorSurfaces ==
    \A c \in Calls :
        fout[c].kind = "err" =>
            /\ pc[c] = "done"
            /\ result[c].kind = "error"
            /\ result[c].text = C1Prefix(c) \o Frag(fout[c].err)

C1_Witness ==
    \E c, d \in Calls :
        /\ op[c] = "get_display_at_point" /\ op[d] # op[c]
        /\ fout[c] = Err("display not found") /\ fout[d] = Err("display not found")
        /\ pc[c] = "done" /\ pc[d] = "done"

\* ------------------------------------------------------------------ C2 --
C2Malformed(c) ==
    \/ op[c] = "get_display_at_point" /\ (raw[c].x.t # "int" \/ raw[c].y.t # "int")
    \/ op[c] = "get_display_by_name" /\ raw[c].name.t # "str"

\* C2: a point or name call with malformed arguments (a required field
\* missing or of the wrong type) ends in a validation error and never
\* invokes the facility; every facility invocation of such a call follows a
\* successful decode of its parameters.
C2_MalformedNeverReachesFacility ==
    \A c \in Calls :
        /\ C2Malformed(c) =>
              /\ fcalls[c] = 0
              /\ fout[c].kind = "none"
              /\ pc[c] \in {"received", "done"}
              /\ pc[c] = "done" => result[c].kind = "error"
                                   /\ result[c].code = "invalid_params"
        /\ (fcalls[c] > 0 /\ op[c] = "get_display_at_point") =>
              /\ raw[c].x.t = "int" /\ raw[c].y.t = "int"
              /\ params[c].x = raw[c].x.i /\ params[c].y = raw[c].y.i
        /\ (fcalls[c] > 0 /\ op[c] = "get_display_by_name") =>
              /\ raw[c].name.t = "str"
              /\ params[c].name = raw[c].name.s

C2_Witness ==
    \E c, d \in Calls :
        /\ op[c] = "get_display_at_point" /\ raw[c].x.t = "absent"
        /\ pc[c] = "done" /\ result[c].code = "invalid_params"
        /\ op[d] = "get_display_by_name" /\ raw[d].name.t = "int"
        /\ pc[d] = "done" /\ result[d].code = "invalid_params"

\* ------------------------------------------------------------------ C3 --
\* C3: every invocation of any of the three operations, for every input and
\* every facility outcome, ends with exactly one protocol result that is a
\* success payload or a structured error; none ends in a panic and none
\* with zero or two results.
C3_ExactlyOneStructuredResult ==
    \A c \in Calls :
        /\ pc[c] # "panicked"
        /\ result[c].kind # "panic"
        /\ pc[c] = "done" => nresults[c] = 1
                             /\ result[c].kind \in {"success", "error"}
        /\ pc[c] # "done" => nresults[c] = 0

\* ------------------------------------------------------------------ C4 --
RECURSIVE C4Blocks(_, _, _)
C4Blocks(ds, n, checks) ==
    IF n = 0 THEN <<>>
    ELSE C4Blocks(ds, n - 1, checks)
           \o <<"Display ", ToString(n), ": ">>
           \o format_single_display(ds[n], checks).text
           \o <<"\n">>

\* C4: for a non-empty list of N records format_display_info returns
\* "Display Information:\n\n", then for i = 1..N in the given order
\* "Display i: " followed by the single-display rendering of the i-th
\* record and a blank line, then "Total displays: N\n".
C4_ListRendering ==
    (info.kind = "text" /\ rds # <<>>) =>
        info.text = <<"Display Information:\n\n">>
                      \o C4Blocks(rds, Len(rds), overflow_checks)
                      \o <<"Total displays: ", ToString(Len(rds)), "\n">>

\* Two different records that share a name, out of position order.
C4_Witness ==
    /\ info.kind = "text"
    /\ Len(rds) = 2
    /\ rds[1] # rds[2]
    /\ rds[1].name = rds[2].name
    /\ rds[1].x > rds[2].x

\* ------------------------------------------------------------------ C5 --
C5EmptyText == <<"Display Information:\n\n", "No displays detected.\n">>

\* C5: when the all-displays query succeeds with an empty list,
\* get_display_info returns a success whose text is exactly
\* "Display Information:\n\nNo displays detected.\n", with no
\* "Total displays" line and no "Display i: " block; "No displays detected."
\* is emitted only for the empty list.
C5_EmptyList ==
    \A c \in Calls :
        /\ (op[c] = "get_display_info" /\ fout[c] = Ok(<<>>)) =>
              /\ result[c].kind = "success"
              /\ result[c].text = C5EmptyText
              /\ ~ HasFragment(result[c].text, "Total displays: ")
              /\ ~ HasFragment(result[c].text, "Display ")
        /\ (result[c].kind = "success"
              /\ HasFragment(result[c].text, "No displays detected.\n")) =>
              /\ op[c] = "get_display_info"
              /\ fout[c] = Ok(<<>>)

C5_Witness ==
    \E c, d \in Calls :
        /\ op[c] = "get_display_info" /\ fout[c] = Ok(<<>>) /\ pc[c] = "done"
        /\ op[d] = "get_display_info" /\ fout[d].kind = "ok"
        /\ Len(fout[d].displays) > 0 /\ pc[d] = "done"

\* ------------------------------------------------------------------ C6 --
\* C6 as stated: the success output of get_display_at_point begins with
\* "Display ({x}, {y}):\n" for the queried integers.
C6_HeadingAsStated ==
    \A c \in Calls :
        (op[c] = "get_display_at_point" /\ result[c].kind = "success") =>
            IsPrefix(<<"Display (", ToString(raw[c].x.i), ", ",
                       ToString(raw[c].y.i), "):\n">>, result[c].text)

\* C6 amended: the success output of get_display_at_point begins with
\* "Display at ({x}, {y}):\n" for the exact queried integers, whatever the
\* x and y of the resolved record, which appear only in its Position line.
C6_HeadingAt ==
    \A c \in Calls :
        (op[c] = "get_display_at_point" /\ result[c].kind = "success") =>
            LET d == fout[c].displays[1]
                h == <<"Display at (", ToString(raw[c].x.i), ", ",
                       ToString(raw[c].y.i), "):\n">>
            IN  /\ IsPrefix(h, result[c].text)
                /\ \E i \in DOMAIN result[c].text :
                      /\ i > Len(h)
                      /\ i + 4 <= Len(result[c].text)
                      /\ SubSeq(result[c].text, i, i + 4)
                           = <<"  Position: (", ToString(d.x), ", ",
                               ToString(d.y), ")\n">>

C6_Witness ==
    \E c \in Calls :
        /\ op[c] = "get_display_at_point"
        /\ result[c].kind = "success"
        /\ raw[c].x.i = -5 /\ raw[c].y.i = 7
        /\ fout[c].displays[1].x = 0 /\ fout[c].displays[1].y = 0

\* ------------------------------------------------------------------ C7 --
C7FirstLine(d) ==
    (IF d.friendly_name # "" THEN <<d.friendly_name>>
     ELSE IF d.name # "" THEN <<d.name>> ELSE <<>>)
      \o (IF d.is_primary THEN <<" (primary)">> ELSE <<>>) \o <<"\n">>

\* C7: the first line of format_single_display is friendlyName when it is
\* non-empty and name otherwise (also when name is empty), followed by
\* " (primary)" iff isPrimary, then a newline; the Resolution and Position
\* lines follow it in that order.
C7_HeaderLine ==
    single.kind = "text" =>
        LET n == Len(C7FirstLine(rd))
        IN  /\ IsPrefix(C7FirstLine(rd), single.text)
            /\ HasFragment(SubSeq(single.text, 1, n), " (primary)") <=> rd.is_primary
            /\ SubSeq(single.text, n + 1, n + 5)
                 = <<"  Resolution: ", ToString(rd.width), "x",
                     ToString(rd.height), "\n">>
            /\ SubSeq(single.text, n + 6, n + 10)
                 = <<"  Position: (", ToString(rd.x), ", ", ToString(rd.y), ")\n">>

C7_Witness ==
    /\ single.kind = "text"
    /\ rd.friendly_name = "Main" /\ rd.name = "DP-1" /\ rd.is_primary
    /\ single.text[1] = "Main" /\ single.text[2] = " (primary)"

\* ------------------------------------------------------------------ C8 --
C8Labels == {"  Physical: ", "  Refresh: ", "  Scale: ", "  Rotation: "}

C8IsLabel(f) == f \in C8Labels

C8IsPosition(f) == f = "  Position: ("

\* C8: each optional line is emitted iff its own condition holds,
\* independently of the others: Physical iff widthMm > 0 and heightMm > 0,
\* Refresh iff frequency > 0, Scale iff scaleFactor != 1.0, Rotation iff
\* rotation != 0; the emitted lines come in the order Physical, Refresh,
\* Scale, Rotation, after the Position line.
C8_OptionalLines ==
    single.kind = "text" =>
        LET pos == CHOOSE i \in DOMAIN single.text : C8IsPosition(single.text[i])
        IN  /\ SelectSeq(single.text, C8IsLabel)
                 = (IF rd.width_mm > 0 /\ rd.height_mm > 0
                      THEN <<"  Physical: ">> ELSE <<>>)
                   \o (IF rd.frequency > 0 THEN <<"  Refresh: ">> ELSE <<>>)
                   \o (IF rd.scale_factor # 1000 THEN <<"  Scale: ">> ELSE <<>>)
                   \o (IF rd.rotation # 0 THEN <<"  Rotation: ">> ELSE <<>>)
            /\ Len(SelectSeq(single.text, C8IsPosition)) = 1
            /\ \A i \in DOMAIN single.text :
                   C8IsLabel(single.text[i]) => i > pos

\* Refresh and Rotation present, Physical and Scale absent.
C8_Witness ==
    /\ single.kind = "text"
    /\ rd.width_mm = 600 /\ rd.height_mm = 0
    /\ rd.frequency > 0 /\ rd.scale_factor = 1000 /\ rd.rotation = -500
    /\ SelectSeq(single.text, C8IsLabel) = <<"  Refresh: ", "  Rotation: ">>

\* ------------------------------------------------------------------ C9 --
C9Fits(w, h) ==
    /\ w <= 46340
    /\ h <= 46340
    /\ w * w <= MaxI32 - h * h

\* C9: for every widthMm, heightMm > 0 the sum widthMm^2 + heightMm^2 stays
\* within the signed 32-bit range, the diagonal shown is that of the true
\* sum, and rendering completes with a text result.
C9_SumOfSquaresInRange ==
    (single.kind # "none" /\ rd.width_mm > 0 /\ rd.height_mm > 0) =>
        /\ single.kind = "text"
        /\ C9Fits(rd.width_mm, rd.height_mm)
        /\ \E i \in DOMAIN single.text :
              /\ single.text[i] = "mm (~"
              /\ i + 3 <= Len(single.text)
              /\ SubSeq(single.text, i + 1, i + 3)
                   = FormatDiag(rd.width_mm * rd.width_mm
                                  + rd.height_mm * rd.height_mm)

\* ----------------------------------------------------------------- C10 --
C10Alone(c) ==
    CASE op[c] = "get_display_info" -> InfoResult(fout[c], overflow_checks)
      [] op[c] = "get_display_at_point" ->
            PointResult([NoParams EXCEPT !.x = raw[c].x.i, !.y = raw[c].y.i],
                        fout[c], overflow_checks)
      [] op[c] = "get_display_by_name" ->
            NameResult([NoParams EXCEPT !.name = raw[c].name.s],
                       fout[c], overflow_checks)

C10Own(c) == <<pc[c], op[c], raw[c], params[c], fcalls[c], fout[c],
               result[c], nresults[c]>>

C10OwnNext(c) == <<pc'[c], op'[c], raw'[c], params'[c], fcalls'[c], fout'[c],
                   result'[c], nresults'[c]>>

C10ResultIsOwn ==
    \A c \in Calls :
        /\ fcalls[c] > 0 => result[c] = C10Alone(c)
        /\ result[c].code = "internal_error" => fout[c].kind = "err"

\* C10: under any interleaving of in-flight invocations each result depends
\* only on the call's own parameters and its own facility outcome: a
\* facility failure gives an error on that call only, and no step of one
\* call changes anything another call holds.
C10_CallsIndependent ==
    /\ [] C10ResultIsOwn
    /\ [][\E c \in Calls : \A d \in Calls \ {c} : C10OwnNext(d) = C10Own(d)]_vars

C10_Witness ==
    \E c, d \in Calls :
        /\ c # d
        /\ op[c] = op[d]
        /\ fout[c].kind = "err" /\ result[c].kind = "error"
        /\ fout[d].kind = "ok" /\ result[d].kind = "success"

=============================================================================
